---- MODULE Spec2Model ----
(***************************************************************************)
(* A model of the Mancala engine (src/src/mancala_ai/game.py, MancalaGame) *)
(* and of the adversarial search built on it (src/src/mancala_ai/ai.py).   *)
(*                                                                         *)
(* A game object is the record                                             *)
(*   [pits_per_player, stones_per_pit, board, current_player,              *)
(*    moves_history]                                                       *)
(* where board is a function on 0 .. 2*(P+1)-1, as the Python list is.     *)
(* The program variables are the fields of the one game the caller holds;  *)
(* `last` records the most recent call made on it and what it returned or  *)
(* raised, together with the intermediate boards of play().  `twin` is the  *)
(* game object that copy() returned, once the caller has made one: its     *)
(* fields, and the lists it has in common with the original (none, for a   *)
(* deep copy).  A list two objects have in common is written by both:      *)
(* play() changes board and moves_history in place.                        *)
(***************************************************************************)
EXTENDS Integers, Sequences, FiniteSets, TLC

VARIABLES pits_per_player, stones_per_pit, board, current_player,
          moves_history, last, twin

vars == <<pits_per_player, stones_per_pit, board, current_player,
          moves_history, last, twin>>

(***************************************************************************)
(* Bounds of the model.                                                    *)
(***************************************************************************)
\* largest pits_per_player of the games played to their end
MaxPits == 3
\* largest pits_per_player * stones_per_pit of the games played to their end
MaxSide == 4
\* largest pits_per_player^2 * stones_per_pit of the games played to their
\* end: the number of lines of play grows with the pits faster than with the
\* stones (112 from 3 pits of 1 stone, 26213 from 4 pits of 1 stone)
MaxWeight == 9
\* largest search depth asked for
MaxDepth == 3
\* number of moves explored from the standard 6-pit, 4-stone opening
StandardPlies == 1
\* a copy is made within this many moves, and followed for fewer than this
\* many moves of the original and of the copy together
MaxCopyPlies == 2
\* the test boards hold up to this many stones in the landing pit
MaxLanding == 4

\* the defaults of MancalaGame
DefaultPits == 6
DefaultStones == 4

\* Python's None, as returned by a search, get_random_move or get_winner;
\* distinct from every pit number and from the tie value 0
None == -1

(***************************************************************************)
(* MancalaGame: construction and the index cache.                          *)
(***************************************************************************)
board_size(P) == (P + 1) * 2

\* len(board)
len(b) == Cardinality(DOMAIN b)

p1_pits_start(g) == 0
p1_pits_end(g) == g.pits_per_player - 1
p1_mancala(g) == g.pits_per_player
p2_pits_start(g) == g.pits_per_player + 1
p2_pits_end(g) == board_size(g.pits_per_player) - 2
p2_mancala(g) == board_size(g.pits_per_player) - 1

\* Variant of the argument check: a game of empty pits is refused.
ValidConfiguration_refuses_zero(P, s) == ~(P < 1) /\ ~(s < 1)

\* __post_init__: the argument check
ValidConfiguration(P, s) == ~(P < 1) /\ ~(s < 0)

\* Variant of __post_init__: the stores are not zeroed.
NewGame_stores_filled(P, s) ==
    [pits_per_player |-> P,
     stones_per_pit  |-> s,
     board           |-> [i \in 0 .. board_size(P) - 1 |-> s],
     current_player  |-> 1,
     moves_history   |-> << >>]

\* __post_init__: every cell stones_per_pit, then both stores zeroed
NewGame(P, s) ==
    [pits_per_player |-> P,
     stones_per_pit  |-> s,
     board           |-> [i \in 0 .. board_size(P) - 1 |->
                            IF i = P \/ i = board_size(P) - 1 THEN 0 ELSE s],
     current_player  |-> 1,
     moves_history   |-> << >>]

\* MancalaGame(pits_per_player = P, stones_per_pit = s): the dataclass sets
\* the fields to the arguments and to their defaults, then __post_init__
\* raises ValueError or builds the board
MancalaGame(P, s) ==
    IF ~ValidConfiguration(P, s)
    THEN [outcome |-> "ValueError",
          game    |-> [pits_per_player |-> P,
                       stones_per_pit  |-> s,
                       board           |-> << >>,
                       current_player  |-> 1,
                       moves_history   |-> << >>]]
    ELSE [outcome |-> "ok", game |-> NewGame(P, s)]

\* sum(b[lo : hi + 1])
RECURSIVE SumRange(_, _, _)
SumRange(b, lo, hi) ==
    IF lo > hi THEN 0 ELSE b[lo] + SumRange(b, lo + 1, hi)

p1_score(g) == g.board[p1_mancala(g)]
p2_score(g) == g.board[p2_mancala(g)]
p1_pits_sum(g) == SumRange(g.board, p1_pits_start(g), p1_pits_end(g))
p2_pits_sum(g) == SumRange(g.board, p2_pits_start(g), p2_pits_end(g))

\* the board index of the mover's pit number `pit`
pit_index_of(g, pit) ==
    IF g.current_player = 1 THEN p1_pits_start(g) + (pit - 1)
                            ELSE p2_pits_start(g) + (pit - 1)

\* Variant of the legality test: an empty pit passes.
is_valid_move_allows_empty(g, pit) ==
    IF ~(1 <= pit /\ pit <= g.pits_per_player) THEN FALSE
    ELSE g.board[pit_index_of(g, pit)] >= 0

is_valid_move(g, pit) ==
    IF ~(1 <= pit /\ pit <= g.pits_per_player) THEN FALSE
    ELSE g.board[pit_index_of(g, pit)] > 0

\* the list comprehension over range(1, pits_per_player + 1)
RECURSIVE valid_moves_from(_, _)
valid_moves_from(g, pit) ==
    IF pit > g.pits_per_player THEN << >>
    ELSE IF is_valid_move(g, pit) THEN <<pit>> \o valid_moves_from(g, pit + 1)
    ELSE valid_moves_from(g, pit + 1)

\* Variant of get_valid_moves(): pit numbers counted from 0.
get_valid_moves_zero_based(g) ==
    [i \in 1 .. Len(valid_moves_from(g, 1)) |-> valid_moves_from(g, 1)[i] - 1]

get_valid_moves(g) == valid_moves_from(g, 1)

\* Variant of get_random_move(): any pit number of the board.
get_random_move_any_pit(g) ==
    IF get_valid_moves(g) = << >> THEN {None}
    ELSE 1 .. g.pits_per_player

\* get_random_move(): the values the call can return, None when there is no
\* valid move and otherwise whichever element of the list rng.choice picks
get_random_move(g) ==
    IF get_valid_moves(g) = << >> THEN {None}
    ELSE {get_valid_moves(g)[i] : i \in 1 .. Len(get_valid_moves(g))}

\* Variant of the terminal test: both sides empty.
is_terminal_both_empty(g) ==
    LET p1_empty == p1_pits_sum(g) = 0
        p2_empty == p2_pits_sum(g) = 0
    IN  p1_empty /\ p2_empty

is_terminal(g) ==
    LET p1_empty == p1_pits_sum(g) = 0
        p2_empty == p2_pits_sum(g) = 0
    IN  p1_empty \/ p2_empty

\* Variant of get_winner(): the stores are compared whether or not the game
\* is over.
get_winner_before_end(g) ==
    IF p1_score(g) > p2_score(g) THEN 1
    ELSE IF p2_score(g) > p1_score(g) THEN 2
    ELSE 0

\* Variant of get_winner(): equal stores go to player 1.
get_winner_ties_to_p1(g) ==
    IF ~is_terminal(g) THEN None
    ELSE IF p1_score(g) >= p2_score(g) THEN 1
    ELSE 2

get_winner(g) ==
    IF ~is_terminal(g) THEN None
    ELSE IF p1_score(g) > p2_score(g) THEN 1
    ELSE IF p2_score(g) > p1_score(g) THEN 2
    ELSE 0

\* Variant of _get_opposite_pit: the mirror image over the whole list.
get_opposite_pit_of_list(g, pit_index) ==
    board_size(g.pits_per_player) - 1 - pit_index

get_opposite_pit(g, pit_index) == 2 * g.pits_per_player - pit_index

\* Variant of the side test: the range of player 1 whoever moves.
is_on_player_side_p1_only(g, pit_index, player) ==
    p1_pits_start(g) <= pit_index /\ pit_index <= p1_pits_end(g)

is_on_player_side(g, pit_index, player) ==
    IF player = 1
    THEN p1_pits_start(g) <= pit_index /\ pit_index <= p1_pits_end(g)
    ELSE p2_pits_start(g) <= pit_index /\ pit_index <= p2_pits_end(g)

(***************************************************************************)
(* _distribute_stones: the while loop, one iteration per unfolding.        *)
(***************************************************************************)
\* Variant of the loop: the opponent's store is sown like any other cell.
RECURSIVE sow_loop_no_skip(_, _, _, _, _)
sow_loop_no_skip(b, size, current_index, stones, opponent_mancala) ==
    IF ~(stones > 0) THEN [board |-> b, final_index |-> current_index]
    ELSE LET next_index == (current_index + 1) % size
         IN  sow_loop_no_skip([b EXCEPT ![next_index] = @ + 1], size,
                              next_index, stones - 1, opponent_mancala)

RECURSIVE sow_loop(_, _, _, _, _)
sow_loop(b, size, current_index, stones, opponent_mancala) ==
    IF ~(stones > 0) THEN [board |-> b, final_index |-> current_index]
    ELSE LET next_index == (current_index + 1) % size
         IN  IF next_index = opponent_mancala
             THEN sow_loop(b, size, next_index, stones, opponent_mancala)
             ELSE sow_loop([b EXCEPT ![next_index] = @ + 1], size, next_index,
                           stones - 1, opponent_mancala)

\* Variant of _distribute_stones: the source pit is not emptied.
distribute_stones_keeps_source(b, pit_index, player_mancala, opponent_mancala) ==
    sow_loop(b, len(b), pit_index, b[pit_index], opponent_mancala)

distribute_stones(b, pit_index, player_mancala, opponent_mancala) ==
    sow_loop([b EXCEPT ![pit_index] = 0], len(b), pit_index, b[pit_index],
             opponent_mancala)

(***************************************************************************)
(* _sweep_remaining_stones: both loops, cell by cell.                      *)
(***************************************************************************)
\* Variant of the sweep loops: the store is set, not added to.
RECURSIVE sweep_range_sets_store(_, _, _, _)
sweep_range_sets_store(b, i, hi, mancala) ==
    IF i > hi THEN b
    ELSE sweep_range_sets_store([b EXCEPT ![mancala] = b[i], ![i] = 0],
                                i + 1, hi, mancala)

RECURSIVE sweep_range(_, _, _, _)
sweep_range(b, i, hi, mancala) ==
    IF i > hi THEN b
    ELSE sweep_range([b EXCEPT ![mancala] = @ + b[i], ![i] = 0],
                     i + 1, hi, mancala)

sweep_remaining_stones(g, b) ==
    sweep_range(sweep_range(b, p1_pits_start(g), p1_pits_end(g), p1_mancala(g)),
                p2_pits_start(g), p2_pits_end(g), p2_mancala(g))

(***************************************************************************)
(* play(pit), stage by stage.                                              *)
(***************************************************************************)
player_mancala(g) == IF g.current_player = 1 THEN p1_mancala(g) ELSE p2_mancala(g)
opponent_mancala(g) == IF g.current_player = 1 THEN p2_mancala(g) ELSE p1_mancala(g)
player_pits(g) ==
    IF g.current_player = 1 THEN <<p1_pits_start(g), p1_pits_end(g)>>
                            ELSE <<p2_pits_start(g), p2_pits_end(g)>>

\* Variant of the capture block: the landing pit need not have been empty.
capture_any_landing(g, b, final_index) ==
    IF is_on_player_side(g, final_index, g.current_player) /\ b[final_index] >= 1
    THEN LET opposite_index == get_opposite_pit(g, final_index)
         IN  IF 0 <= opposite_index /\ opposite_index < len(b)
                /\ b[opposite_index] > 0
             THEN LET captured == b[opposite_index] + b[final_index]
                  IN  [[b EXCEPT ![opposite_index] = 0, ![final_index] = 0]
                          EXCEPT ![player_mancala(g)] = @ + captured]
             ELSE b
    ELSE b

\* Variant of the capture block: the capturing stone is not counted.
capture_without_landing_stone(g, b, final_index) ==
    IF is_on_player_side(g, final_index, g.current_player) /\ b[final_index] = 1
    THEN LET opposite_index == get_opposite_pit(g, final_index)
         IN  IF 0 <= opposite_index /\ opposite_index < len(b)
                /\ b[opposite_index] > 0
             THEN LET captured == b[opposite_index]
                  IN  [[b EXCEPT ![opposite_index] = 0, ![final_index] = 0]
                          EXCEPT ![player_mancala(g)] = @ + captured]
             ELSE b
    ELSE b

\* the capture block applied to the sown board
capture(g, b, final_index) ==
    IF is_on_player_side(g, final_index, g.current_player) /\ b[final_index] = 1
    THEN LET opposite_index == get_opposite_pit(g, final_index)
         IN  IF 0 <= opposite_index /\ opposite_index < len(b)
                /\ b[opposite_index] > 0
             THEN LET captured == b[opposite_index] + 1
                  IN  [[b EXCEPT ![opposite_index] = 0, ![final_index] = 0]
                          EXCEPT ![player_mancala(g)] = @ + captured]
             ELSE b
    ELSE b

\* Variant of the test in front of the sweep: no sweep at all.
sweep_due_never(g, b) == FALSE

\* Variant of the test in front of the sweep: the opponent's pits only.
sweep_due_opponent_side_only(g, b) ==
    IF g.current_player = 1
    THEN SumRange(b, p2_pits_start(g), p2_pits_end(g)) = 0
    ELSE SumRange(b, p1_pits_start(g), p1_pits_end(g)) = 0

\* Variant of the test in front of the sweep: the mover's own pits only.
sweep_due_own_side_only(g, b) ==
    SumRange(b, player_pits(g)[1], player_pits(g)[2]) = 0

\* the test in front of the sweep
sweep_due(g, b) ==
    SumRange(b, player_pits(g)[1], player_pits(g)[2]) = 0
    \/ is_terminal([g EXCEPT !.board = b])

\* Variant of the last statement: the turn passes by counting on.
next_player_counts_on(g, b, final_index) ==
    IF final_index # player_mancala(g) /\ ~is_terminal([g EXCEPT !.board = b])
    THEN g.current_player + 1
    ELSE g.current_player

\* Variant of the last statement: the end of the game is not looked at.
next_player_ignores_end(g, b, final_index) ==
    IF final_index # player_mancala(g)
    THEN (IF g.current_player = 1 THEN 2 ELSE 1)
    ELSE g.current_player

\* Variant of the last statement: no extra turn.
next_player_always_switches(g, b, final_index) ==
    IF ~is_terminal([g EXCEPT !.board = b])
    THEN (IF g.current_player = 1 THEN 2 ELSE 1)
    ELSE g.current_player

\* the last statement: the turn passes unless an extra turn or the end
next_player(g, b, final_index) ==
    IF final_index # player_mancala(g) /\ ~is_terminal([g EXCEPT !.board = b])
    THEN (IF g.current_player = 1 THEN 2 ELSE 1)
    ELSE g.current_player

\* Variant of the checks: a pit number in range is accepted, empty or not.
play_outcome_range_only(g, pit) ==
    IF is_terminal(g) THEN "GameOver"
    ELSE IF ~(1 <= pit /\ pit <= g.pits_per_player) THEN "InvalidMove"
    ELSE "ok"

\* Variant of the checks: the legality check in front of the terminal check.
play_outcome_legality_first(g, pit) ==
    IF ~is_valid_move(g, pit) THEN "InvalidMove"
    ELSE IF is_terminal(g) THEN "GameOver"
    ELSE "ok"

\* what play(pit) raises, or "ok"
play_outcome(g, pit) ==
    IF is_terminal(g) THEN "GameOver"
    ELSE IF ~is_valid_move(g, pit) THEN "InvalidMove"
    ELSE "ok"

\* Variant of play(): the history entry is written after the turn has passed.
play_trace_late_entry(g, pit) ==
    LET pit_index == pit_index_of(g, pit)
        sown      == distribute_stones(g.board, pit_index, player_mancala(g),
                                       opponent_mancala(g))
        fin       == sown.final_index
        captured  == capture(g, sown.board, fin)
        swept     == sweep_due(g, captured)
        final     == IF swept THEN sweep_remaining_stones(g, captured)
                     ELSE captured
    IN  [final_index |-> fin,
         sown        |-> sown.board,
         captured    |-> captured,
         swept       |-> swept,
         game        |-> [g EXCEPT
                            !.moves_history =
                                Append(@, <<next_player(g, final, fin), pit>>),
                            !.board = final,
                            !.current_player = next_player(g, final, fin)]]

\* the stages of a successful play(pit)
play_trace(g, pit) ==
    LET pit_index == pit_index_of(g, pit)
        sown      == distribute_stones(g.board, pit_index, player_mancala(g),
                                       opponent_mancala(g))
        fin       == sown.final_index
        captured  == capture(g, sown.board, fin)
        swept     == sweep_due(g, captured)
        final     == IF swept THEN sweep_remaining_stones(g, captured)
                     ELSE captured
    IN  [final_index |-> fin,
         sown        |-> sown.board,
         captured    |-> captured,
         swept       |-> swept,
         game        |-> [g EXCEPT
                            !.moves_history = Append(@, <<g.current_player, pit>>),
                            !.board = final,
                            !.current_player = next_player(g, final, fin)]]

\* Variant of play(): the move is recorded before the pit is checked.
play_records_before_check(g, pit) ==
    IF play_outcome(g, pit) = "ok" THEN play_trace(g, pit).game
    ELSE IF play_outcome(g, pit) = "InvalidMove"
         THEN [g EXCEPT !.moves_history = Append(@, <<g.current_player, pit>>)]
         ELSE g

\* the game after play(pit); unchanged when play raises
play(g, pit) ==
    IF play_outcome(g, pit) = "ok" THEN play_trace(g, pit).game ELSE g

\* Variant of copy(): a shallow copy, the new object holds the same two lists.
copy_shallow(g) == [game |-> g, shares |-> {"board", "moves_history"}]

\* Variant of copy(): the board is copied, the history list is not.
copy_shares_history(g) == [game |-> g, shares |-> {"moves_history"}]

\* copy(): copy.deepcopy(self), a new object with the same field values and
\* with no list in common with self
copy(g) == [game |-> g, shares |-> {}]

\* an object that has the lists `shares` in common with another one, after
\* that other one was changed in place to g
written_through(other, g, shares) ==
    [other EXCEPT
        !.board = IF "board" \in shares THEN g.board ELSE @,
        !.moves_history = IF "moves_history" \in shares
                          THEN g.moves_history ELSE @]

(***************************************************************************)
(* MancalaAI: the adversarial-game wrapper.  A search state is the         *)
(* namedtuple GameState(to_move, utility, board, moves), board being the   *)
(* game object.                                                            *)
(***************************************************************************)
\* np.inf, larger than any difference of two stores
Inf == 1000

calculate_utility(g) == p1_score(g) - p2_score(g)

\* the GameState that result() builds around a game object
GameState(g) ==
    [to_move |-> g.current_player,
     utility |-> calculate_utility(g),
     board   |-> g,
     moves   |-> get_valid_moves(g)]

\* MancalaAI.__post_init__: the initial search state
initial(P, s) ==
    [to_move |-> 1,
     utility |-> 0,
     board   |-> NewGame(P, s),
     moves   |-> get_valid_moves(NewGame(P, s))]

terminal_test(state) == is_terminal(state.board)

actions(state) ==
    IF terminal_test(state) THEN << >> ELSE get_valid_moves(state.board)

\* Variant of result(): the list of moves is taken over from the old state.
result_keeps_moves(state, move) ==
    [GameState(play(copy(state.board).game, move)) EXCEPT
        !.moves = state.moves]

\* copy the game, play the move on the copy, wrap it
result(state, move) == GameState(play(copy(state.board).game, move))

\* the state passed to result(), as it is when result() returns
result_input(state, move) ==
    LET new_game == copy(state.board)
    IN  [state EXCEPT !.board = written_through(@, play(new_game.game, move),
                                                new_game.shares)]

\* Variant of utility(): player 1's view whoever asks.
utility_p1_view(state, player) ==
    p1_score(state.board) - p2_score(state.board)

utility(state, player) ==
    LET util == p1_score(state.board) - p2_score(state.board)
    IN  IF player = 1 THEN util ELSE -util

to_move(state) == state.to_move

\* the state passed to a search, as it is when the search returns: the root
\* loop calls result(state, action) for every action; the states below the
\* root are the objects result() returned
RECURSIVE search_input_loop(_, _, _)
search_input_loop(state, acts, i) ==
    IF i > Len(acts) THEN state
    ELSE search_input_loop(result_input(state, acts[i]), acts, i + 1)

search_input(state) == search_input_loop(state, actions(state), 1)

Max(a, b) == IF a >= b THEN a ELSE b
Min(a, b) == IF a <= b THEN a ELSE b

(***************************************************************************)
(* minimax_search.  The for loops are unfolded over the index i into the   *)
(* list of actions, carrying the loop's local v.                           *)
(***************************************************************************)
RECURSIVE mm_max_value(_, _, _, _)
RECURSIVE mm_min_value(_, _, _, _)
RECURSIVE mm_max_loop(_, _, _, _, _, _, _)
RECURSIVE mm_min_loop(_, _, _, _, _, _, _)

mm_max_value(state, player, depth, current_depth) ==
    IF current_depth >= depth \/ terminal_test(state)
    THEN utility(state, player)
    ELSE mm_max_loop(state, player, depth, current_depth, actions(state), 1, -Inf)

mm_max_loop(state, player, depth, current_depth, acts, i, v) ==
    IF i > Len(acts) THEN v
    ELSE mm_max_loop(state, player, depth, current_depth, acts, i + 1,
            Max(v, mm_min_value(result(state, acts[i]), player, depth,
                                current_depth + 1)))

mm_min_value(state, player, depth, current_depth) ==
    IF current_depth >= depth \/ terminal_test(state)
    THEN utility(state, player)
    ELSE mm_min_loop(state, player, depth, current_depth, actions(state), 1, Inf)

mm_min_loop(state, player, depth, current_depth, acts, i, v) ==
    IF i > Len(acts) THEN v
    ELSE mm_min_loop(state, player, depth, current_depth, acts, i + 1,
            Min(v, mm_max_value(result(state, acts[i]), player, depth,
                                current_depth + 1)))

\* Variant of the root loop: a move of equal value replaces the best so far.
RECURSIVE mm_root_loop_last_wins(_, _, _, _, _, _, _)
mm_root_loop_last_wins(state, player, depth, acts, i, best_value, best_action) ==
    IF i > Len(acts) THEN best_action
    ELSE LET value == mm_min_value(result(state, acts[i]), player, depth, 1)
         IN  IF value >= best_value
             THEN mm_root_loop_last_wins(state, player, depth, acts, i + 1,
                                         value, acts[i])
             ELSE mm_root_loop_last_wins(state, player, depth, acts, i + 1,
                                         best_value, best_action)

\* the root loop of minimax_search
RECURSIVE mm_root_loop(_, _, _, _, _, _, _)
mm_root_loop(state, player, depth, acts, i, best_value, best_action) ==
    IF i > Len(acts) THEN best_action
    ELSE LET value == mm_min_value(result(state, acts[i]), player, depth, 1)
         IN  IF value > best_value
             THEN mm_root_loop(state, player, depth, acts, i + 1, value, acts[i])
             ELSE mm_root_loop(state, player, depth, acts, i + 1, best_value,
                               best_action)

\* Variant of the root loop's start: best_action starts as the first pit.
minimax_search_first_pit(state, depth) ==
    mm_root_loop(state, to_move(state), depth, actions(state), 1, -Inf, 1)

minimax_search(state, depth) ==
    mm_root_loop(state, to_move(state), depth, actions(state), 1, -Inf, None)

get_minimax_move(state, depth) == minimax_search(state, depth)

(***************************************************************************)
(* alpha_beta_search with the cutoff_test and eval_fn that                 *)
(* get_alpha_beta_move passes in.                                          *)
(***************************************************************************)
\* Variant of cutoff_test: one ply deeper, current_depth > depth.
cutoff_test_past_depth(state, current_depth, depth) ==
    current_depth > depth \/ terminal_test(state)

cutoff_test(state, current_depth, depth) ==
    current_depth >= depth \/ terminal_test(state)

eval_fn(state, root_player) == utility(state, root_player)

\* v >= beta: a maximizing node stops
max_prunes(v, beta) == v >= beta
\* Variant of the cut at a minimizing node: the comparison turned round.
min_prunes_reversed(v, alpha) == v >= alpha

\* v <= alpha: a minimizing node stops
min_prunes(v, alpha) == v <= alpha

RECURSIVE ab_max_value(_, _, _, _, _, _)
RECURSIVE ab_min_value(_, _, _, _, _, _)
RECURSIVE ab_max_loop(_, _, _, _, _, _, _, _, _)
RECURSIVE ab_min_loop(_, _, _, _, _, _, _, _, _)

ab_max_value(state, player, depth, alpha, beta, current_depth) ==
    IF cutoff_test(state, current_depth, depth) THEN eval_fn(state, player)
    ELSE ab_max_loop(state, player, depth, alpha, beta, current_depth,
                     actions(state), 1, -Inf)

ab_max_loop(state, player, depth, alpha, beta, current_depth, acts, i, v) ==
    IF i > Len(acts) THEN v
    ELSE LET v2 == Max(v, ab_min_value(result(state, acts[i]), player, depth,
                                       alpha, beta, current_depth + 1))
         IN  IF max_prunes(v2, beta) THEN v2
             ELSE ab_max_loop(state, player, depth, Max(alpha, v2), beta,
                              current_depth, acts, i + 1, v2)

ab_min_value(state, player, depth, alpha, beta, current_depth) ==
    IF cutoff_test(state, current_depth, depth) THEN eval_fn(state, player)
    ELSE ab_min_loop(state, player, depth, alpha, beta, current_depth,
                     actions(state), 1, Inf)

ab_min_loop(state, player, depth, alpha, beta, current_depth, acts, i, v) ==
    IF i > Len(acts) THEN v
    ELSE LET v2 == Min(v, ab_max_value(result(state, acts[i]), player, depth,
                                       alpha, beta, current_depth + 1))
         IN  IF min_prunes(v2, alpha) THEN v2
             ELSE ab_min_loop(state, player, depth, alpha, Min(beta, v2),
                              current_depth, acts, i + 1, v2)

\* Variant of the root loop: a move of equal score replaces the best so far.
RECURSIVE ab_root_loop_last_wins(_, _, _, _, _, _, _)
ab_root_loop_last_wins(state, player, depth, acts, i, best_score, best_action) ==
    IF i > Len(acts) THEN best_action
    ELSE LET v == ab_min_value(result(state, acts[i]), player, depth,
                               best_score, Inf, 1)
         IN  IF v >= best_score
             THEN ab_root_loop_last_wins(state, player, depth, acts, i + 1, v,
                                         acts[i])
             ELSE ab_root_loop_last_wins(state, player, depth, acts, i + 1,
                                         best_score, best_action)

\* the root loop of alpha_beta_search: beta stays np.inf, alpha is best_score
RECURSIVE ab_root_loop(_, _, _, _, _, _, _)
ab_root_loop(state, player, depth, acts, i, best_score, best_action) ==
    IF i > Len(acts) THEN best_action
    ELSE LET v == ab_min_value(result(state, acts[i]), player, depth,
                               best_score, Inf, 1)
         IN  IF v > best_score
             THEN ab_root_loop(state, player, depth, acts, i + 1, v, acts[i])
             ELSE ab_root_loop(state, player, depth, acts, i + 1, best_score,
                               best_action)

\* Variant of the root loop's start: best_score starts at 0.
alpha_beta_search_zero_start(state, depth) ==
    ab_root_loop(state, to_move(state), depth, actions(state), 1, 0, None)

alpha_beta_search(state, depth) ==
    ab_root_loop(state, to_move(state), depth, actions(state), 1, -Inf, None)

get_alpha_beta_move(state, depth) == alpha_beta_search(state, depth)

(***************************************************************************)
(* The state machine: one game object, and the calls a caller makes on it. *)
(***************************************************************************)
\* the game object the variables hold
Game ==
    [pits_per_player |-> pits_per_player,
     stones_per_pit  |-> stones_per_pit,
     board           |-> board,
     current_player  |-> current_player,
     moves_history   |-> moves_history]

\* the configurations whose games are played to their end
FullConfigs ==
    {c \in (1 .. MaxPits) \X (0 .. MaxSide) :
        /\ c[1] * c[2] <= MaxSide
        /\ c[1] * c[1] * c[2] <= MaxWeight}

\* the configurations constructed: those, and the default board
Configs == FullConfigs \cup {<<DefaultPits, DefaultStones>>}

\* the pit arguments tried: every pit number, and one below and one above
PitInputs == 0 .. pits_per_player + 1

\* the depth arguments tried
Depths == 0 .. MaxDepth

\* the default game is followed for StandardPlies moves only
WithinPlies ==
    <<pits_per_player, stones_per_pit>> \in FullConfigs
    \/ Len(moves_history) < StandardPlies

\* A call that leaves the game as it is (a search, a play() that raises) is
\* made on a position when the position is new: right after construction or
\* after a move.  Such a call changes nothing but `last`, so every pair of a
\* position and a call's outcome is still reached.
Fresh == last.op \in {"new", "play"} /\ last.outcome = "ok"

NoCall(op) ==
    [op |-> op, outcome |-> "ok", pit |-> 0, player |-> current_player,
     pre |-> board, sown |-> board, final_index |-> 0, captured |-> board,
     swept |-> FALSE, depth |-> 0, move |-> None]

\* the caller holds the game that MancalaGame(c[1], c[2]) returned, or
\* nothing but the error it raised; no copy has been made
Constructing(c) ==
    LET new == MancalaGame(c[1], c[2])
    IN  /\ pits_per_player = new.game.pits_per_player
        /\ stones_per_pit = new.game.stones_per_pit
        /\ board = new.game.board
        /\ current_player = new.game.current_player
        /\ moves_history = new.game.moves_history
        /\ last = [op |-> "new", outcome |-> new.outcome, pit |-> 0,
                   player |-> 1, pre |-> new.game.board,
                   sown |-> new.game.board, final_index |-> 0,
                   captured |-> new.game.board,
                   swept |-> FALSE, depth |-> 0, move |-> None]
        /\ twin = [made |-> FALSE, shares |-> {}, at |-> 0, game |-> new.game]

Init == \E c \in Configs : Constructing(c)

\* the constructor returned a game
Constructed == board # << >>

\* the moves made on the original and on the copy since copy()
AfterCopy ==
    (Len(moves_history) - twin.at) + (Len(twin.game.moves_history) - twin.at)

\* game.play(pit): raises and changes nothing, or makes the move
Play(pit) ==
    /\ Constructed
    /\ WithinPlies
    /\ twin.made => AfterCopy < MaxCopyPlies
    /\ Fresh \/ play_outcome(Game, pit) = "ok"
    /\ LET g   == Game
           out == play_outcome(g, pit)
           tr  == play_trace(g, pit)
           aft == play(g, pit)
       IN  /\ IF out = "ok"
              THEN /\ board' = aft.board
                   /\ current_player' = aft.current_player
                   /\ moves_history' = aft.moves_history
                   /\ last' = [op |-> "play", outcome |-> out, pit |-> pit,
                               player |-> current_player, pre |-> board,
                               sown |-> tr.sown, final_index |-> tr.final_index,
                               captured |-> tr.captured, swept |-> tr.swept,
                               depth |-> 0, move |-> None]
              ELSE /\ board' = aft.board
                   /\ current_player' = aft.current_player
                   /\ moves_history' = aft.moves_history
                   /\ last' = [NoCall("play") EXCEPT !.outcome = out, !.pit = pit]
           /\ twin' = IF twin.made
                      THEN [twin EXCEPT
                              !.game = written_through(@, aft, twin.shares)]
                      ELSE twin
    /\ UNCHANGED <<pits_per_player, stones_per_pit>>

\* get_minimax_move(ai, GameState of the game, depth)
Minimax(depth) ==
    /\ Fresh
    /\ LET state == GameState(Game)
       IN  /\ last' = [NoCall("minimax") EXCEPT
                          !.depth = depth,
                          !.move = get_minimax_move(state, depth)]
           /\ board' = search_input(state).board.board
           /\ current_player' = search_input(state).board.current_player
           /\ moves_history' = search_input(state).board.moves_history
    /\ UNCHANGED <<pits_per_player, stones_per_pit, twin>>

\* get_alpha_beta_move(ai, GameState of the game, depth)
AlphaBeta(depth) ==
    /\ Fresh
    /\ LET state == GameState(Game)
       IN  /\ last' = [NoCall("alpha_beta") EXCEPT
                          !.depth = depth,
                          !.move = get_alpha_beta_move(state, depth)]
           /\ board' = search_input(state).board.board
           /\ current_player' = search_input(state).board.current_player
           /\ moves_history' = search_input(state).board.moves_history
    /\ UNCHANGED <<pits_per_player, stones_per_pit, twin>>

Next ==
    \/ \E pit \in PitInputs : Play(pit)
    \/ \E depth \in Depths : Minimax(depth)
    \/ \E depth \in Depths : AlphaBeta(depth)

Spec == Init /\ [][Next]_vars

(***************************************************************************)
(* The engine alone: the constructor called with arguments of any sign, a  *)
(* board set up by hand as the tests do, play(), and copy() with play() on *)
(* the copy.                                                               *)
(***************************************************************************)
\* the constructor arguments tried: the games played to their end, and
\* pits_per_player down to 0 and stones_per_pit down to -1
ConfigInputs == FullConfigs \cup ((0 .. MaxPits) \X (-1 .. 0))

\* test_capture_rule's board, with 0 .. MaxLanding stones in pit 4
capture_board(k) ==
    [i \in 0 .. 13 |-> <<0, 0, 1, k, 4, 4, 0, 4, 4, 4, 4, 4, 4, 0>>[i + 1]]

TestBoards == {capture_board(k) : k \in 0 .. MaxLanding}

\* game = MancalaGame(6, 4); game.board = b
SetUp(b) ==
    LET new == MancalaGame(DefaultPits, DefaultStones)
    IN  /\ pits_per_player = new.game.pits_per_player
        /\ stones_per_pit = new.game.stones_per_pit
        /\ board = b
        /\ current_player = new.game.current_player
        /\ moves_history = new.game.moves_history
        /\ last = [op |-> "set_board", outcome |-> "ok", pit |-> 0,
                   player |-> 1, pre |-> b, sown |-> b, final_index |-> 0,
                   captured |-> b, swept |-> FALSE, depth |-> 0,
                   move |-> None]
        /\ twin = [made |-> FALSE, shares |-> {}, at |-> 0,
                   game |-> [new.game EXCEPT !.board = b]]

EngineInit ==
    \/ \E c \in ConfigInputs \cup Configs : Constructing(c)
    \/ \E b \in TestBoards : SetUp(b)

\* twin = game.copy(), once, within MaxCopyPlies moves
Copy ==
    /\ Constructed
    /\ ~twin.made
    /\ Len(moves_history) <= MaxCopyPlies
    /\ twin' = [made   |-> TRUE,
                shares |-> copy(Game).shares,
                at     |-> Len(moves_history),
                game   |-> copy(Game).game]
    /\ last' = NoCall("copy")
    /\ UNCHANGED <<pits_per_player, stones_per_pit, board, current_player,
                   moves_history>>

\* a call that leaves the copy as it is is made when the copy is new
TwinFresh == last.op \in {"copy", "twin_play"} /\ last.outcome = "ok"

\* twin.play(pit): raises and changes nothing, or makes the move on the copy
PlayTwin(pit) ==
    /\ twin.made
    /\ AfterCopy < MaxCopyPlies
    /\ TwinFresh \/ play_outcome(twin.game, pit) = "ok"
    /\ LET g   == twin.game
           out == play_outcome(g, pit)
           tr  == play_trace(g, pit)
           aft == play(g, pit)
       IN  /\ twin' = [twin EXCEPT !.game = aft]
           /\ board' = written_through(Game, aft, twin.shares).board
           /\ moves_history' =
                  written_through(Game, aft, twin.shares).moves_history
           /\ last' = IF out = "ok"
                      THEN [op |-> "twin_play", outcome |-> out, pit |-> pit,
                            player |-> g.current_player, pre |-> g.board,
                            sown |-> tr.sown, final_index |-> tr.final_index,
                            captured |-> tr.captured, swept |-> tr.swept,
                            depth |-> 0, move |-> None]
                      ELSE [NoCall("twin_play") EXCEPT
                               !.outcome = out, !.pit = pit]
    /\ UNCHANGED <<pits_per_player, stones_per_pit, current_player>>

\* game.get_random_move() returning `move`
RandomMove(move) ==
    /\ Fresh
    /\ move \in get_random_move(Game)
    /\ last' = [NoCall("random") EXCEPT !.move = move]
    /\ UNCHANGED <<pits_per_player, stones_per_pit, board, current_player,
                   moves_history, twin>>

EngineNext ==
    \/ \E pit \in PitInputs : Play(pit)
    \/ Copy
    \/ \E pit \in PitInputs : PlayTwin(pit)
    \/ \E move \in PitInputs \cup {None} : RandomMove(move)

EngineSpec == EngineInit /\ [][EngineNext]_vars

(***************************************************************************)
(* Properties.                                                             *)
(***************************************************************************)
\* the last call was a play() that made a move
Moved == last.op = "play" /\ last.outcome = "ok"

\* the game object as it was when the last call began
Before == [Game EXCEPT !.board = last.pre, !.current_player = last.player]

\* the store of the player who made the last move, and the other store
MoverStore == IF last.player = 1 THEN pits_per_player ELSE 2 * pits_per_player + 1
OtherStore == IF last.player = 1 THEN 2 * pits_per_player + 1 ELSE pits_per_player

\* the pit indices of player 1, of player 2, of both
Pits1 == 0 .. pits_per_player - 1
Pits2 == pits_per_player + 1 .. 2 * pits_per_player
AllPits == Pits1 \cup Pits2
Cells == 0 .. 2 * pits_per_player + 1

\* the last stone of the last move fell on the mover's own side
LandedOnOwnSide ==
    IF last.player = 1 THEN last.final_index \in Pits1
                       ELSE last.final_index \in Pits2

RECURSIVE SumOver(_, _)
SumOver(b, S) ==
    IF S = {} THEN 0
    ELSE LET i == CHOOSE j \in S : TRUE IN b[i] + SumOver(b, S \ {i})

TotalStones == 2 * pits_per_player * stones_per_pit

\* C1: in every reachable state the cells of the board sum to 2*P*s, and
\* so do the boards a move passes through: after sowing, after the capture,
\* after the sweep.
C1_Conservation ==
    /\ SumOver(board, Cells) = TotalStones
    /\ Moved => /\ SumOver(last.sown, Cells) = TotalStones
                /\ SumOver(last.captured, Cells) = TotalStones

\* a move that captured and was followed by the sweep
C1_Witness ==
    /\ Moved
    /\ last.captured # last.sown
    /\ last.swept
    /\ board # last.captured

\* C2: a move captures exactly when its last stone fell on the mover's own
\* side into a pit that then holds 1 stone and the pit opposite (2P - landing
\* index) is not empty; a capture adds the opposite pit's stones plus 1 to the
\* mover's store and empties both pits, touching no other cell; otherwise the
\* board stays as sown.
C2_CaptureRule ==
    Moved =>
        LET b   == last.sown
            c   == last.captured
            fin == last.final_index
            opp == 2 * pits_per_player - fin
        IN  /\ IF LandedOnOwnSide /\ b[fin] = 1 /\ b[opp] > 0
               THEN /\ c[MoverStore] = b[MoverStore] + b[opp] + 1
                    /\ c[fin] = 0
                    /\ c[opp] = 0
                    /\ \A i \in Cells \ {MoverStore, fin, opp} : c[i] = b[i]
               ELSE c = b
            /\ ~last.swept => board = c

\* a capture by player 2, not followed by the sweep
C2_Witness ==
    /\ Moved
    /\ last.player = 2
    /\ last.captured # last.sown
    /\ ~last.swept

\* C3: after a move that does not end the game the mover moves again exactly
\* when the last stone fell into the mover's own store, and otherwise the
\* other player is to move; on the 6-pit, 4-stone opening pit 3 keeps
\* player 1 to move and pit 1 passes the turn to player 2.
C3_ExtraTurn ==
    /\ (Moved /\ ~is_terminal(Game)) =>
          /\ (current_player = last.player) <=> (last.final_index = MoverStore)
          /\ current_player # last.player => current_player = 3 - last.player
    /\ (pits_per_player = 6 /\ stones_per_pit = 4) =>
          /\ moves_history = << <<1, 3>> >> => current_player = 1
          /\ moves_history = << <<1, 1>> >> => current_player = 2

\* the opening move pit 3 of the 6-pit, 4-stone game
C3_Witness ==
    /\ pits_per_player = 6 /\ stones_per_pit = 4
    /\ Moved
    /\ moves_history = << <<1, 3>> >>
    /\ last.final_index = 6

\* C4: when a move leaves a side with no stone, every pit is empty afterwards
\* and each store has grown by what was left on its own side; every terminal
\* state has 2P empty pits and stores that sum to 2*P*s.
C4_TerminalSweep ==
    /\ Moved =>
          LET c == last.captured
          IN  (SumOver(c, Pits1) = 0 \/ SumOver(c, Pits2) = 0) =>
                  /\ \A i \in AllPits : board[i] = 0
                  /\ board[pits_per_player] =
                        c[pits_per_player] + SumOver(c, Pits1)
                  /\ board[2 * pits_per_player + 1] =
                        c[2 * pits_per_player + 1] + SumOver(c, Pits2)
    /\ is_terminal(Game) =>
          /\ \A i \in AllPits : board[i] = 0
          /\ p1_score(Game) + p2_score(Game) = TotalStones

\* a move that emptied the other side by a capture while the mover kept stones
C4_Witness ==
    /\ Moved
    /\ last.captured # last.sown
    /\ SumOver(last.captured, IF last.player = 1 THEN Pits2 ELSE Pits1) = 0
    /\ SumOver(last.captured, IF last.player = 1 THEN Pits1 ELSE Pits2) > 0
    /\ is_terminal(Game)

\* C5: sowing leaves the opponent's store as it was, and so does every move
\* that is not followed by the sweep, however many stones the pit held.
C5_OpponentStoreSkipped ==
    Moved =>
        /\ last.sown[OtherStore] = last.pre[OtherStore]
        /\ ~last.swept => board[OtherStore] = last.pre[OtherStore]

\* a move of 2P+1 stones or more, which passes the opponent's store and comes
\* back to its own pit
C5_Witness ==
    /\ Moved
    /\ ~last.swept
    /\ last.pre[pit_index_of(Before, last.pit)] >= 2 * pits_per_player + 1

\* C6: play(pit) makes no move when is_valid_move(pit) is false before the
\* call: a move that was made was a valid one, and a call with a pit that is
\* not valid raises and leaves the game as it was.
C6_LegalitySoundness ==
    /\ [](Moved => is_valid_move(Before, last.pit))
    /\ [][\A pit \in PitInputs :
            (Play(pit) /\ ~is_valid_move(Game, pit)) =>
                /\ last'.op = "play" /\ last'.pit = pit
                /\ last'.outcome \in {"InvalidMove", "GameOver"}
                /\ board' = board
                /\ current_player' = current_player
                /\ moves_history' = moves_history]_vars

\* a call with the number of an empty pit of the mover, in a running game
C6_Witness ==
    /\ last.op = "play"
    /\ last.outcome = "InvalidMove"
    /\ last.pit \in 1 .. pits_per_player
    /\ board[pit_index_of(Game, last.pit)] = 0

Rank(b) ==
    LET P == pits_per_player
        W == SumOver([i \in Cells |->
                        IF i \in Pits1 THEN b[i] * (i + 1)
                        ELSE IF i \in Pits2 THEN b[i] * (i - P)
                        ELSE 0], Cells)
    IN  (b[P] + b[2 * P + 1]) * (P * TotalStones + 1) + W

\* no board of the game ranks higher
RankBound == (TotalStones + 1) * (pits_per_player * TotalStones + 1)

\* C8: every move carries the board strictly forward in a measure that is
\* bounded for the game (so no position is met twice and no sequence of legal
\* moves is endless), and a game that is not terminal has a legal move (so
\* play goes on until the game is terminal).
C8_Termination ==
    /\ [](Rank(board) >= 0 /\ Rank(board) <= RankBound)
    /\ [][moves_history' # moves_history => Rank(board') > Rank(board)]_vars
    /\ [](~is_terminal(Game) => get_valid_moves(Game) # << >>)

\* a finished game that took more moves than there are pits on the board
C8_Witness ==
    /\ is_terminal(Game)
    /\ Len(moves_history) > 2 * pits_per_player

\* the depth-limited minimax value of a root move
RootValue(state, move, depth) ==
    mm_min_value(result(state, move), to_move(state), depth, 1)

\* C9: in a game that is not over, the move of get_alpha_beta_move and the
\* move of get_minimax_move at the same depth have the same depth-limited
\* minimax value.
C9_SameValue ==
    (last.op \in {"alpha_beta", "minimax"} /\ ~is_terminal(Game)) =>
        LET state == GameState(Game)
            other == IF last.op = "alpha_beta"
                     THEN get_minimax_move(state, last.depth)
                     ELSE get_alpha_beta_move(state, last.depth)
        IN  /\ last.move # None /\ other # None
            /\ RootValue(state, last.move, last.depth) =
               RootValue(state, other, last.depth)

\* an alpha-beta search to depth 3 at a position whose root moves differ in
\* value
C9_Witness ==
    /\ last.op = "alpha_beta"
    /\ last.depth = 3
    /\ ~is_terminal(Game)
    /\ \E m \in 1 .. pits_per_player :
          /\ is_valid_move(Game, m)
          /\ RootValue(GameState(Game), m, 3) <
             RootValue(GameState(Game), last.move, 3)

\* C10: on a terminal position, where there is no legal move, both searches
\* return None.
C10_NoMoveAtTerminal ==
    (last.op \in {"alpha_beta", "minimax"} /\ actions(GameState(Game)) = << >>) =>
        /\ is_terminal(Game)
        /\ last.move = None

\* a search to depth 2 or more on a game finished by play
C10_Witness ==
    /\ last.op = "minimax"
    /\ last.depth >= 2
    /\ is_terminal(Game)
    /\ Len(moves_history) > 0
    /\ last.move = None

\* the last call was one of the two searches
Searched == last.op \in {"minimax", "alpha_beta"}

\* the elements of a sequence
Elements(seq) == {seq[i] : i \in 1 .. Len(seq)}

\* C11: on every reachable game that is not over, a search of either kind and
\* of any depth >= 1 returns a member of actions(state), never None, and
\* play() accepts the returned move.
C11_SearchReturnsLegalMove ==
    (Searched /\ last.depth >= 1 /\ ~is_terminal(Game)) =>
        /\ last.move # None
        /\ last.move \in Elements(actions(GameState(Game)))
        /\ play_outcome(Game, last.move) = "ok"

\* an alpha-beta search, after some moves, whose every root move is worth
\* less than 0 to the mover, and which returns another pit than the first
C11_Witness ==
    /\ last.op = "alpha_beta"
    /\ last.depth >= 2
    /\ moves_history # <<>>
    /\ ~is_terminal(Game)
    /\ last.move \in Elements(actions(GameState(Game)))
    /\ last.move # actions(GameState(Game))[1]
    /\ \A m \in Elements(actions(GameState(Game))) :
          RootValue(GameState(Game), m, last.depth) < 0

\* C12: result(state, move) leaves the state passed to it exactly as it was
\* and returns the state of the move played on a copy; a complete
\* get_alpha_beta_move or get_minimax_move call leaves the board cells,
\* current_player and moves_history of the game it was given as they were.
C12_SearchLeavesInputUnchanged ==
    /\ [](\A move \in Elements(actions(GameState(Game))) :
             /\ result_input(GameState(Game), move) = GameState(Game)
             /\ result(GameState(Game), move).board = play(Game, move)
             /\ result(GameState(Game), move).board # Game)
    /\ [][last'.op \in {"minimax", "alpha_beta"} =>
             /\ board' = board
             /\ current_player' = current_player
             /\ moves_history' = moves_history]_vars

\* a minimax search to depth 2 or more, made after some moves on a game with
\* several moves to choose from, so that result() ran on the caller's state
\* and on the states below it
C12_Witness ==
    /\ last.op = "minimax"
    /\ last.depth >= 2
    /\ Len(moves_history) >= 2
    /\ Len(actions(GameState(Game))) >= 2
    /\ board = last.pre

\* C13: a game returned by copy() starts with the original's board,
\* current_player and moves_history; a play() on the original leaves the
\* three fields of the copy as they were, and a play() on the copy leaves the
\* three fields of the original as they were.
C13_CopyIndependent ==
    /\ [][last'.op = "copy" => twin'.game = Game /\ Game' = Game]_vars
    /\ [][(twin.made /\ last'.op = "play") => twin'.game = twin.game]_vars
    /\ [][last'.op = "twin_play" =>
             /\ board' = board
             /\ current_player' = current_player
             /\ moves_history' = moves_history]_vars

\* after copy() the original and the copy were both played on, the original
\* last, and their boards now differ
C13_Witness ==
    /\ twin.made
    /\ last.op = "play" /\ last.outcome = "ok"
    /\ Len(moves_history) > twin.at
    /\ Len(twin.game.moves_history) > twin.at
    /\ twin.game.board # board

\* the pit numbers of the player to move whose pit holds a stone
NonEmptyPits ==
    {p \in 1 .. pits_per_player :
        board[IF current_player = 1 THEN p - 1 ELSE pits_per_player + p] > 0}

\* C14: get_valid_moves() lists exactly the pit numbers 1..P of the player to
\* move whose pit holds more than 0 stones, in strictly ascending order, and
\* is_valid_move(p) is true of exactly those p, also among the numbers below
\* 1 and above P.  (Both read the game only: they are operators of it.)
C14_ValidMovesExact ==
    LET moves == get_valid_moves(Game)
    IN  /\ Elements(moves) = NonEmptyPits
        /\ \A i \in 1 .. Len(moves) - 1 : moves[i] < moves[i + 1]
        /\ \A p \in PitInputs : is_valid_move(Game, p) <=> p \in NonEmptyPits

\* player 2 is to move and has stones in the first and the third pit but
\* none in the second
C14_Witness ==
    /\ current_player = 2
    /\ ~is_terminal(Game)
    /\ get_valid_moves(Game) = <<1, 3>>
    /\ ~is_valid_move(Game, 2)

\* C15: get_winner() returns None exactly when the game is not over; when it
\* is over it returns 1 if player 1's store holds more, 2 if player 2's store
\* holds more, and 0 if the stores are equal.
C15_Winner ==
    LET over == SumOver(board, Pits1) = 0 \/ SumOver(board, Pits2) = 0
        s1   == board[pits_per_player]
        s2   == board[2 * pits_per_player + 1]
    IN  /\ get_winner(Game) = None <=> ~over
        /\ over <=> is_terminal(Game)
        /\ over => /\ s1 > s2 => get_winner(Game) = 1
                   /\ s2 > s1 => get_winner(Game) = 2
                   /\ s1 = s2 => get_winner(Game) = 0

\* a game that ended, after moves, with player 2's store ahead
C15_Witness ==
    /\ is_terminal(Game)
    /\ moves_history # << >>
    /\ board[2 * pits_per_player + 1] > board[pits_per_player]
    /\ get_winner(Game) = 2

\* the first move of a game whose board was set to one of the test boards
\* was player 1's pit 3
PlayedPit3(b) ==
    /\ Moved
    /\ moves_history = << <<1, 3>> >>
    /\ last.pre = b

C17_SinglePit ==
    (pits_per_player = 1 /\ NonEmptyPits # {}) =>
        /\ get_valid_moves(Game) = <<1>>
        /\ Searched => last.move = 1
        /\ \A depth \in Depths :
              /\ get_alpha_beta_move(GameState(Game), depth) = 1
              /\ get_minimax_move(GameState(Game), depth) = 1

\* test_single_pit_game's search, made after the first move: one pit a side,
\* alpha-beta to depth 3 returned pit 1
C17_Witness ==
    /\ pits_per_player = 1
    /\ stones_per_pit = 4
    /\ Len(moves_history) = 1
    /\ NonEmptyPits # {}
    /\ last.op = "alpha_beta"
    /\ last.depth = 3
    /\ last.move = 1

\* C18: a game constructed with stones_per_pit = 0 is over from the start:
\* is_terminal() is true, get_valid_moves() is empty, get_winner() is the tie
\* value 0, play() raises for every pit and leaves the game as constructed,
\* and both searches return None at every depth.
C18_ZeroStones ==
    stones_per_pit = 0 =>
        /\ is_terminal(Game)
        /\ get_valid_moves(Game) = << >>
        /\ get_winner(Game) = 0
        /\ \A pit \in PitInputs : play_outcome(Game, pit) = "GameOver"
        /\ last.op = "play" => last.outcome = "GameOver"
        /\ Game = NewGame(pits_per_player, 0)
        /\ Searched => last.move = None
        /\ \A depth \in Depths :
              /\ get_alpha_beta_move(GameState(Game), depth) = None
              /\ get_minimax_move(GameState(Game), depth) = None

\* play() of a pit number in range was refused on a 3-pit game of empty pits
C18_Witness ==
    /\ stones_per_pit = 0
    /\ pits_per_player = 3
    /\ last.op = "play"
    /\ last.pit \in 1 .. pits_per_player
    /\ last.outcome = "GameOver"

\* C19: the constructor raises, and there is no game, exactly when
\* pits_per_player < 1 or stones_per_pit < 0; with pits_per_player >= 1 and
\* stones_per_pit >= 0, among them 1 pit and 0 stones, it returns a game.
C19_ConstructionFails ==
    LET refused == pits_per_player < 1 \/ stones_per_pit < 0
    IN  /\ refused <=> ~Constructed
        /\ refused <=> (last.op = "new" /\ last.outcome = "ValueError")
        /\ refused => moves_history = << >> /\ ~twin.made
        /\ ~refused => len(board) = 2 * (pits_per_player + 1)

\* the constructor refused 1 pit a side with -1 stones
C19_Witness ==
    /\ pits_per_player = 1
    /\ stones_per_pit = -1
    /\ ~Constructed
    /\ last.outcome = "ValueError"

\* C20: a newly constructed game has a board of 2*(P+1) cells, indexed from
\* 0, with stones_per_pit stones in every pit of both players and 0 in both
\* stores (indices P and 2P+1); player 1 is to move and moves_history is
\* empty.
C20_NewBoard ==
    last.op = "new" =>
        /\ DOMAIN board = 0 .. 2 * (pits_per_player + 1) - 1
        /\ \A i \in AllPits : board[i] = stones_per_pit
        /\ board[pits_per_player] = 0
        /\ board[2 * pits_per_player + 1] = 0
        /\ current_player = 1
        /\ moves_history = << >>

\* a new game of 2 pits a side and 2 stones a pit
C20_Witness ==
    /\ last.op = "new"
    /\ pits_per_player = 2
    /\ stones_per_pit = 2
    /\ board[0] = 2
    /\ board[2] = 0

\* C21: utility(state, 1) is player 1's store minus player 2's store and
\* utility(state, 2) is its negation, so the two sum to 0; every state that
\* result() returns carries in its utility field the difference of the stores
\* of its own board.
C21_Utility ==
    LET state == GameState(Game)
        diff  == board[pits_per_player] - board[2 * pits_per_player + 1]
    IN  /\ utility(state, 1) = diff
        /\ utility(state, 2) = -diff
        /\ utility(state, 1) + utility(state, 2) = 0
        /\ state.utility = diff
        /\ \A move \in Elements(actions(state)) :
              LET next == result(state, move)
              IN  next.utility = next.board.board[pits_per_player]
                                 - next.board.board[2 * pits_per_player + 1]

\* a search made for player 2 on a position whose stores differ, and from
\* which a move changes the difference
C21_Witness ==
    /\ Searched
    /\ last.depth >= 1
    /\ current_player = 2
    /\ board[pits_per_player] # board[2 * pits_per_player + 1]
    /\ \E move \in Elements(actions(GameState(Game))) :
          result(GameState(Game), move).utility # GameState(Game).utility

\* C22: whatever get_random_move() returns is a pit for which is_valid_move
\* holds in the state of the call, or None, and it is None exactly when
\* get_valid_moves() is empty; the call leaves board, current_player and
\* moves_history as they were.
C22_RandomMove ==
    [][last'.op = "random" =>
          /\ last'.move = None <=> get_valid_moves(Game) = << >>
          /\ last'.move # None => is_valid_move(Game, last'.move)
          /\ board' = board
          /\ current_player' = current_player
          /\ moves_history' = moves_history]_vars

\* get_random_move() returned a pit in a position, some moves into the game,
\* where another pit of the mover is empty
C22_Witness ==
    /\ last.op = "random"
    /\ last.move # None
    /\ moves_history # << >>
    /\ is_valid_move(Game, last.move)
    /\ \E p \in 1 .. pits_per_player : ~is_valid_move(Game, p)

\* C23: a play(pit) that succeeds appends the one entry (mover, pit) to
\* moves_history, the mover being current_player before the move, and leaves
\* the earlier entries as they were; every other call, a play() that raises
\* among them, leaves moves_history as it was.  So moves_history lists the
\* successful moves in order.
C23_MovesHistory ==
    [][IF last'.op = "play" /\ last'.outcome = "ok"
       THEN /\ moves_history' = Append(moves_history, <<current_player, last'.pit>>)
            /\ Len(moves_history') = Len(moves_history) + 1
            /\ \A i \in 1 .. Len(moves_history) :
                  moves_history'[i] = moves_history[i]
       ELSE moves_history' = moves_history]_vars

\* a history of three moves or more with two moves of the same player in a
\* row and a move of player 2, written after a refused play()
C23_Witness ==
    /\ Len(moves_history) >= 3
    /\ \E i \in 1 .. Len(moves_history) - 1 :
          moves_history[i][1] = moves_history[i + 1][1]
    /\ \E i \in 1 .. Len(moves_history) : moves_history[i][1] = 2
    /\ last.op = "play"
    /\ last.outcome = "InvalidMove"

\* the largest and the smallest element of a non-empty set of integers
SetMax(S) == CHOOSE x \in S : \A y \in S : y <= x
SetMin(S) == CHOOSE x \in S : \A y \in S : x <= y

\* the depth-limited value of a node when the node's mover decides: the
\* maximum of the children where `player` is to move, the minimum where the
\* opponent is, the utility at the cutoff
RECURSIVE node_value(_, _, _, _)
node_value(state, player, depth, current_depth) ==
    IF current_depth >= depth \/ terminal_test(state)
    THEN utility(state, player)
    ELSE LET children == {node_value(result(state, a), player, depth,
                                     current_depth + 1) :
                             a \in Elements(actions(state))}
         IN  IF to_move(state) = player THEN SetMax(children)
                                        ELSE SetMin(children)

\* C24: in the minimax search every expanded node where the root player is
\* to move takes the maximum of its children's values and every expanded node
\* where the opponent is to move takes the minimum, also after an extra turn:
\* the value the search gives a root move is the value its node has when the
\* node's mover decides.
C24_MaxMinByMover ==
    (last.op = "minimax" /\ ~is_terminal(Game)) =>
        \A move \in Elements(actions(GameState(Game))) :
            RootValue(GameState(Game), move, last.depth) =
            node_value(result(GameState(Game), move), current_player,
                       last.depth, 1)

\* C25: a move captures only if the pit its last stone fell into held 0
\* stones when the move began; a pit of 2P+1 stones, whose last stone comes
\* round to the pit it was taken from, does not capture.
C25_CaptureOnlyIfEmptyBefore ==
    (Moved /\ last.captured # last.sown) => last.pre[last.final_index] = 0

\* the root moves of the position in front of the last search
RootMoves == Elements(actions(GameState(Game)))

\* C26: on a game that is not over get_minimax_move returns, among the legal
\* moves, the lowest-numbered pit whose depth-limited minimax value (the
\* value the search computes for the move) is maximal: no move has a greater
\* value and no lower-numbered move has an equal one.
C26_FirstBestMove ==
    (last.op = "minimax" /\ ~is_terminal(Game)) =>
        LET value(m) == RootValue(GameState(Game), m, last.depth)
        IN  /\ last.move \in RootMoves
            /\ \A m \in RootMoves :
                  /\ value(m) <= value(last.move)
                  /\ m < last.move => value(m) < value(last.move)

\* a minimax search that returned neither the first nor the last legal move,
\* a later move having the same value as the one returned
C26_Witness ==
    /\ last.op = "minimax"
    /\ last.depth >= 2
    /\ ~is_terminal(Game)
    /\ last.move # actions(GameState(Game))[1]
    /\ \E m \in RootMoves :
          /\ m > last.move
          /\ RootValue(GameState(Game), m, last.depth) =
             RootValue(GameState(Game), last.move, last.depth)

\* C27: for every position and every depth get_alpha_beta_move returns the
\* very pit that get_minimax_move returns (None with None), though it
\* searches the root moves after the first with alpha at the best score so
\* far.
C27_SameMove ==
    /\ last.op = "alpha_beta" =>
          last.move = get_minimax_move(GameState(Game), last.depth)
    /\ last.op = "minimax" =>
          last.move = get_alpha_beta_move(GameState(Game), last.depth)

\* an alpha-beta search to depth 3 that returned a move other than the first,
\* where a later root move has, in full minimax, the value of the one returned
C27_Witness ==
    /\ last.op = "alpha_beta"
    /\ last.depth = 3
    /\ ~is_terminal(Game)
    /\ last.move # actions(GameState(Game))[1]
    /\ \E m \in RootMoves :
          /\ m > last.move
          /\ RootValue(GameState(Game), m, last.depth) =
             RootValue(GameState(Game), last.move, last.depth)

\* the value of a node with `plies` more plies to look ahead: the utility
\* when no ply is left or the game is over, and otherwise the minimum or the
\* maximum, in turn, of the values of the children with one ply less
RECURSIVE plies_value(_, _, _, _)
plies_value(state, player, plies, maximizing) ==
    IF plies = 0 \/ terminal_test(state) THEN utility(state, player)
    ELSE LET children == {plies_value(result(state, a), player, plies - 1,
                                      ~maximizing) :
                             a \in Elements(actions(state))}
         IN  IF maximizing THEN SetMax(children) ELSE SetMin(children)

\* the first of the legal moves whose successor state is worth most to the
\* player to move
FirstBestImmediate ==
    LET worth(m) == utility(result(GameState(Game), m), current_player)
    IN  CHOOSE m \in RootMoves :
            \A n \in RootMoves : /\ worth(n) <= worth(m)
                                 /\ n < m => worth(n) < worth(m)

\* C28: the state after a root move is at depth 1 and every further ply adds
\* 1, and the evaluation is taken exactly at the states that are terminal or
\* at depth >= the configured depth: the value of a root move in a search of
\* depth d is that of its successor with d - 1 more plies to look ahead (0
\* for d = 0).  So a search of depth 1, of either kind, returns the first
\* legal move that maximizes the root player's utility of the successor.
C28_DepthCounting ==
    (Searched /\ ~is_terminal(Game)) =>
        /\ \A m \in RootMoves :
              RootValue(GameState(Game), m, last.depth) =
              plies_value(result(GameState(Game), m), current_player,
                          Max(last.depth, 1) - 1, FALSE)
        /\ last.depth = 1 => last.move = FirstBestImmediate

\* an alpha-beta search of depth 1 that returned a move other than the first,
\* on a position where the search of depth 2 returns yet another move
C28_Witness ==
    /\ last.op = "alpha_beta"
    /\ last.depth = 1
    /\ ~is_terminal(Game)
    /\ last.move = FirstBestImmediate
    /\ last.move # actions(GameState(Game))[1]
    /\ get_alpha_beta_move(GameState(Game), 2) # last.move

\* the board index of the pit the last move was made from, and the number of
\* stones it held
SourceIndex ==
    IF last.player = 1 THEN last.pit - 1 ELSE pits_per_player + last.pit
SownStones == last.pre[SourceIndex]

\* the cells that take stones: all but the opponent's store, 2P+1 of them
Eligible == Cells \ {OtherStore}

\* the place of an eligible cell in the circle that starts after the source
\* pit: 1 for the next eligible cell, ..., 2P+1 for the source pit itself
PlaceAfterSource(c) ==
    LET size  == 2 * pits_per_player + 2
        steps == IF c = SourceIndex THEN size ELSE (c - SourceIndex) % size
        store == (OtherStore - SourceIndex) % size
    IN  IF store < steps THEN steps - 1 ELSE steps

\* the stones a cell receives when k stones go round that circle one by one
Received(c, k) ==
    IF PlaceAfterSource(c) > k THEN 0
    ELSE (k - PlaceAfterSource(c)) \div (2 * pits_per_player + 1) + 1

\* C29: play(pit) on a pit of k stones takes all k out of the pit and puts
\* them one per cell on the k cells that follow it in circular order, the
\* opponent's store not counted; the last of them is the landing index.  For
\* k <= 2P the source pit is 0 after sowing, the next k eligible cells have
\* gained exactly 1 and no other cell has changed; for k >= 2P+1 the source
\* pit has received stones again.
C29_Sowing ==
    Moved =>
        LET k == SownStones
        IN  /\ k > 0
            /\ last.sown[OtherStore] = last.pre[OtherStore]
            /\ \A c \in Eligible :
                  last.sown[c] = (IF c = SourceIndex THEN 0 ELSE last.pre[c])
                                 + Received(c, k)
            /\ PlaceAfterSource(last.final_index) % (2 * pits_per_player + 1)
                  = k % (2 * pits_per_player + 1)
            /\ last.final_index \in Eligible
            /\ k <= 2 * pits_per_player =>
                  /\ last.sown[SourceIndex] = 0
                  /\ \A c \in Eligible \ {SourceIndex} :
                        last.sown[c] = last.pre[c]
                                       + (IF PlaceAfterSource(c) <= k THEN 1 ELSE 0)
            /\ k >= 2 * pits_per_player + 1 => last.sown[SourceIndex] >= 1

\* a pit of 2P+2 stones was sown: the pit played holds 1 stone again and the
\* last stone fell on the cell after it, which gained 2
C29_Witness ==
    /\ Moved
    /\ SownStones = 2 * pits_per_player + 2
    /\ last.sown[SourceIndex] = 1
    /\ PlaceAfterSource(last.final_index) = 1
    /\ last.sown[last.final_index] = last.pre[last.final_index] + 2

\* the stones on player 1's and on player 2's side of a board
Side1(b) == SumOver(b, Pits1)
Side2(b) == SumOver(b, Pits2)

\* C30: a move is followed by the sweep exactly when is_terminal() holds of
\* the board after sowing and capture, the test of the mover's own pits
\* adding nothing to it; also when it is the opponent's side that a capture
\* emptied, and then the stones left on the mover's side go to the mover's
\* own store.
C30_SweepExactlyWhenTerminal ==
    Moved =>
        LET c       == last.captured
            over    == is_terminal([Before EXCEPT !.board = c])
            own     == IF last.player = 1 THEN Side1(c) ELSE Side2(c)
            other   == IF last.player = 1 THEN Side2(c) ELSE Side1(c)
        IN  /\ last.swept <=> over
            /\ own = 0 => over
            /\ last.swept <=> sweep_due(Before, c)
            /\ ~last.swept => board = c
            /\ last.swept =>
                  /\ \A i \in AllPits : board[i] = 0
                  /\ board[MoverStore] = c[MoverStore] + own
                  /\ board[OtherStore] = c[OtherStore] + other
            /\ (other = 0 /\ own > 0) =>
                  /\ last.swept
                  /\ board[MoverStore] = c[MoverStore] + own
                  /\ board[OtherStore] = c[OtherStore]

\* the mover captured the last stones of the other side while holding
\* stones on its own side, and the sweep took these to the mover's store
C30_Witness ==
    LET own(b)   == IF last.player = 1 THEN Side1(b) ELSE Side2(b)
        other(b) == IF last.player = 1 THEN Side2(b) ELSE Side1(b)
    IN  /\ Moved
        /\ other(last.sown) > 0
        /\ other(last.captured) = 0
        /\ own(last.captured) > 0
        /\ last.swept
        /\ board[MoverStore] = last.captured[MoverStore] + own(last.captured)
        /\ board[MoverStore] > last.captured[MoverStore]

\* C31: the opposite 2P - i of every index i of player 1's pits is an index
\* of player 2's pits and the other way round, never a store and never off
\* the board, and the opposite of the opposite of i is i; so whenever the
\* capture code computes the opposite of a landing index on the mover's side,
\* its bounds check 0 <= opposite < len(board) is true.
C31_OppositePit ==
    /\ \A i \in Pits1 : get_opposite_pit(Game, i) \in Pits2
    /\ \A i \in Pits2 : get_opposite_pit(Game, i) \in Pits1
    /\ \A i \in AllPits :
          get_opposite_pit(Game, get_opposite_pit(Game, i)) = i
    /\ \A i \in AllPits :
          \A player \in {1, 2} :
              is_on_player_side(Game, i, player) =>
                  /\ 0 <= get_opposite_pit(Game, i)
                  /\ get_opposite_pit(Game, i) < len(board)
                  /\ ~is_on_player_side(Game, get_opposite_pit(Game, i), player)
    /\ (Moved /\ LandedOnOwnSide) =>
          get_opposite_pit(Before, last.final_index) \in
              (IF last.player = 1 THEN Pits2 ELSE Pits1)

\* player 2's last stone fell into an empty pit of its own, at the far end
\* of the board, whose opposite pit (index 0) was empty: the code looked at
\* the opposite index and did not capture
C31_Witness ==
    /\ Moved
    /\ last.player = 2
    /\ last.final_index = 2 * pits_per_player
    /\ last.sown[last.final_index] = 1
    /\ get_opposite_pit(Before, last.final_index) = 0
    /\ last.sown[0] = 0
    /\ last.captured = last.sown

\* C32: in every reachable state every cell of the board is a non-negative
\* integer, the board has the 2*(P+1) cells 0 .. 2P+1, and current_player is
\* 1 or 2; the same holds of the boards a move passes through.
C32_WellFormed ==
    /\ DOMAIN board = 0 .. 2 * (pits_per_player + 1) - 1
    /\ len(board) = 2 * (pits_per_player + 1)
    /\ \A i \in DOMAIN board : board[i] \in Nat
    /\ current_player \in {1, 2}
    /\ Moved => /\ DOMAIN last.sown = DOMAIN board
                /\ DOMAIN last.captured = DOMAIN board
                /\ \A i \in DOMAIN board : /\ last.sown[i] \in Nat
                                           /\ last.captured[i] \in Nat

\* after six moves or more player 2 is to move on a board with an empty pit
\* on each side
C32_Witness ==
    /\ Len(moves_history) >= 6
    /\ current_player = 2
    /\ ~is_terminal(Game)
    /\ \E i \in Pits1 : board[i] = 0
    /\ \E i \in Pits2 : board[i] = 0

\* C33: a successful play() lowers neither store, at no stage: each store
\* holds after sowing at least what it held before the move, after the
\* capture at least what it held after sowing, and after the sweep at least
\* what it held after the capture.  So over any sequence of moves no store
\* ever decreases.
C33_StoresNeverDecrease ==
    Moved =>
        \A store \in {MoverStore, OtherStore} :
            /\ last.pre[store] <= last.sown[store]
            /\ last.sown[store] <= last.captured[store]
            /\ last.captured[store] <= board[store]

\* a move that added to both stores: to the mover's by sowing and to the
\* other, which held stones before, by the sweep
C33_Witness ==
    /\ Moved
    /\ last.swept
    /\ last.pre[OtherStore] > 0
    /\ last.sown[MoverStore] > last.pre[MoverStore]
    /\ board[OtherStore] > last.captured[OtherStore]

\* C34: in every reachable state get_valid_moves() is the empty list exactly
\* when is_terminal() holds: the player to move has a pit with stones as long
\* as the game runs, also right after an extra turn or a capture, and no
\* pit holds a stone once the game has ended.
C34_NoMovesIffTerminal ==
    /\ (get_valid_moves(Game) = << >>) <=> is_terminal(Game)
    /\ is_terminal(Game) => \A i \in AllPits : board[i] = 0
    /\ (Moved /\ ~is_terminal(Game)) =>
          \E pit \in 1 .. pits_per_player : is_valid_move(Game, pit)

\* a capture that left the mover, who is not to move next, one pit with
\* stones and the player to move exactly one valid move
C34_Witness ==
    /\ Moved
    /\ last.captured # last.sown
    /\ ~is_terminal(Game)
    /\ current_player # last.player
    /\ Len(get_valid_moves(Game)) = 1
    /\ Cardinality({i \in AllPits : board[i] > 0}) = 2

\* C35: a play(pit) on a game that is not terminal, with a pit that is not
\* a valid move, raises the invalid-move error and leaves board,
\* current_player and moves_history as they were, and a copy made earlier
\* too; the invalid-move error is raised in no other case.
C35_InvalidMoveChangesNothing ==
    [][/\ \A pit \in PitInputs :
             (Play(pit) /\ ~is_terminal(Game) /\ ~is_valid_move(Game, pit)) =>
                 /\ last'.op = "play" /\ last'.pit = pit
                 /\ last'.outcome = "InvalidMove"
                 /\ Game' = Game
                 /\ twin' = twin
       /\ (last'.op = "play" /\ last'.outcome = "InvalidMove") =>
             /\ ~is_terminal(Game)
             /\ ~is_valid_move(Game, last'.pit)
             /\ board' = board
             /\ current_player' = current_player
             /\ moves_history' = moves_history]_vars

\* player 2, after moves of both players, called play with a pit number one
\* past its last pit
C35_Witness ==
    /\ last.op = "play"
    /\ last.outcome = "InvalidMove"
    /\ last.pit = pits_per_player + 1
    /\ current_player = 2
    /\ Len(moves_history) >= 2
    /\ ~is_terminal(Game)

\* the search state the last move was made from
StateBefore ==
    GameState([Before EXCEPT
        !.moves_history = SubSeq(moves_history, 1, Len(moves_history) - 1)])

\* a search state whose fields agree with its game object
SelfConsistent(state) ==
    /\ to_move(state) = state.board.current_player
    /\ state.moves = get_valid_moves(state.board)
    /\ actions(state) = state.moves
    /\ (state.moves = << >>) <=> terminal_test(state)
    /\ (actions(state) = << >>) <=> terminal_test(state)

\* C36: every search state made by MancalaAI's constructor or by result() is
\* self-consistent: to_move is the game's current_player, moves is the game's
\* get_valid_moves(), and actions(state) is that list, empty exactly when
\* the state is terminal.  The state of a new game is `initial`, the state of
\* a game after a move is result() of the state before and the move, and
\* result() of that state and of any of its actions is self-consistent again.
C36_SearchStatesConsistent ==
    /\ (Constructed /\ moves_history = << >>) =>
          /\ initial(pits_per_player, stones_per_pit) = GameState(Game)
          /\ SelfConsistent(initial(pits_per_player, stones_per_pit))
    /\ Moved =>
          /\ result(StateBefore, last.pit) = GameState(Game)
          /\ SelfConsistent(result(StateBefore, last.pit))
    /\ \A move \in Elements(actions(GameState(Game))) :
          /\ SelfConsistent(result(GameState(Game), move))
          /\ SelfConsistent(result_input(GameState(Game), move))

\* a state reached by moves in which one action ends the game, its result
\* having no moves, and another leaves the next player some of its pits to
\* play but not all
C36_Witness ==
    /\ Moved
    /\ \E move \in Elements(actions(GameState(Game))) :
          /\ terminal_test(result(GameState(Game), move))
          /\ result(GameState(Game), move).moves = << >>
    /\ \E move \in Elements(actions(GameState(Game))) :
          /\ result(GameState(Game), move).moves # << >>
          /\ Len(result(GameState(Game), move).moves) < pits_per_player

\* C37: when a successful play() ends the game, current_player is left as
\* the player who made that move, whether the last stone fell into the
\* mover's store or not.
C37_MoverKeptAtEnd ==
    (Moved /\ is_terminal(Game)) => current_player = last.player

\* a move that ended the game with its last stone in a pit, not in the
\* mover's store, made by player 2
C37_Witness ==
    /\ Moved
    /\ is_terminal(Game)
    /\ last.final_index # MoverStore
    /\ last.player = 2
    /\ current_player = 2
====
